---- MODULE Spec2Model ----
(***************************************************************************)
(* Model of src/aggregate_data.py: the district aggregator                 *)
(* (get_district_aggregates), the street aggregator                        *)
(* (get_street_aggregates) and the price-similarity search                 *)
(* (similar_rent_prices).                                                  *)
(*                                                                         *)
(* Tables are sequences of records (one record per row, in row order).     *)
(* Means are kept as exact fractions [num, den]; the district table holds  *)
(* them rounded to one decimal, as an integer number of tenths.            *)
(* Districts, streets and geometries are small integers: only their        *)
(* equality and (for districts and streets) their sort order matter.       *)
(***************************************************************************)
EXTENDS Integers, Sequences, FiniteSets, TLC

VARIABLES
    input,                    \* rows of complete_data.csv, as read by main()
    complete_data,            \* the in-memory table both aggregators receive
    n_similar_streets,        \* parameter of get_street_aggregates / similar_rent_prices
    sort_tiebreak,            \* how this build's sort_values orders equal keys
    district_aggregates,      \* result of the latest get_district_aggregates call
    street_aggregates,        \* result of the latest get_street_aggregates call
    first_district_aggregates,\* result of the first get_district_aggregates call
    first_street_aggregates,  \* result of the first get_street_aggregates call
    calls,                    \* the aggregator calls made so far, in order
    street_data,              \* similar_rent_prices: its argument table
    i,                        \* similar_rent_prices: loop index (1-based)
    most_similar_streets,     \* similar_rent_prices: list built by the loop
    most_similar_rents,       \* similar_rent_prices: list built by the loop
    similar_result            \* similar_rent_prices: its result once it returned or raised

vars == <<input, complete_data, n_similar_streets, sort_tiebreak,
          district_aggregates, street_aggregates, first_district_aggregates,
          first_street_aggregates, calls,
          street_data, i, most_similar_streets, most_similar_rents,
          similar_result>>

pipeline_vars == <<input, complete_data, district_aggregates, street_aggregates,
                   first_district_aggregates, first_street_aggregates, calls>>

similar_vars == <<street_data, i, most_similar_streets, most_similar_rents,
                  similar_result>>

----------------------------------------------------------------------------
(* Bounds of the model and constants of the program.                       *)

MaxStreets == 4          \* rows of the street table handed to similar_rent_prices
MaxSimilar == 6          \* largest n_similar_streets tried on those tables
MaxRuns == 3             \* aggregator calls made on one loaded table

CurrentYear == 2023      \* the year tagged "now"
FixedColumns == 5        \* range(5): the hard-coded number of unpacked columns

Prices == {10, 11, 12, 30}
TieBreaks == {"row_order", "reverse_row_order"}

NaN == -1                \* a missing number (prices and counts are >= 0)
NoRooms == "NaN"         \* a missing rooms value

Min(a, b) == IF a < b THEN a ELSE b
Abs(x) == IF x < 0 THEN -x ELSE x

Frac(n, d) == [num |-> n, den |-> d]
FracLess(a, b) == a.num * b.den < b.num * a.den
FracEq(a, b) == a.num * b.den = b.num * a.den

----------------------------------------------------------------------------
(* similar_rent_prices                                                     *)

\* the signed difference: abs() left out
SignedDiff(rent, target_rent) ==
    Frac(rent.num * target_rent.den - target_rent.num * rent.den,
         rent.den * target_rent.den)

\* abs(other_streets["rent_per_square_meter"] - target_rent)
AbsDiff(rent, target_rent) ==
    Frac(Abs(rent.num * target_rent.den - target_rent.num * rent.den),
         rent.den * target_rent.den)

\* the target street is not removed
OtherStreetsUnfiltered(table, target_street) ==
    table

\* street_data[street_data["street"] != target_street]
OtherStreets(table, target_street) ==
    SelectSeq(table, LAMBDA r : r.street # target_street)

RECURSIVE SortByAbsDiff(_, _, _, _, _)
\* The first m rows of other_streets, sorted by abs_diff (ascending or not);
\* rows with equal abs_diff stay in row order or come out reversed, as
\* tiebreak says. Row m is put behind the rows that go before it.
SortByAbsDiff(other_streets, m, target_rent, tiebreak, ascending) ==
    IF m = 0 THEN <<>>
    ELSE LET sorted == SortByAbsDiff(other_streets, m - 1, target_rent,
                                     tiebreak, ascending)
             abs_diff == AbsDiff(other_streets[m].rent_per_square_meter, target_rent)
             Before(row) ==
                 LET row_diff == AbsDiff(row.rent_per_square_meter, target_rent)
                 IN  \/ /\ ascending
                        /\ FracLess(row_diff, abs_diff)
                     \/ /\ ~ascending
                        /\ FracLess(abs_diff, row_diff)
                     \/ /\ FracEq(row_diff, abs_diff)
                        /\ tiebreak = "row_order"
             j == Len(SelectSeq(sorted, Before))
         IN  SubSeq(sorted, 1, j) \o <<other_streets[m]>>
                 \o SubSeq(sorted, j + 1, Len(sorted))

\* ascending=False
SortValuesDescending(other_streets, target_rent, tiebreak) ==
    SortByAbsDiff(other_streets, Len(other_streets), target_rent, tiebreak, FALSE)

\* other_streets.sort_values(by="abs_diff", ascending=True): the default sort
\* kind is quicksort, which fixes no order among equal keys; tiebreak is the
\* order this build gives them.
SortValues(other_streets, target_rent, tiebreak) ==
    SortByAbsDiff(other_streets, Len(other_streets), target_rent, tiebreak, TRUE)

\* .head(n) for n >= 0
HeadRows(rows, n) ==
    SubSeq(rows, 1, Min(n, Len(rows)))

\* one iteration of the loop: the rows of the n streets most similar to row k
SimilarRows(table, k, n, tiebreak) ==
    HeadRows(SortValues(OtherStreets(table, table[k].street),
                        table[k].rent_per_square_meter, tiebreak), n)

StreetNames(rows) == [k \in 1..Len(rows) |-> rows[k].street]
StreetRents(rows) == [k \in 1..Len(rows) |-> rows[k].rent_per_square_meter]

\* pd.DataFrame(list_of_lists, columns=[5 names]): an empty list gives an empty
\* frame with the 5 columns; otherwise the rows are padded to the longest
\* list and that width has to equal the number of column names.
UnpackWidth(lists) ==
    IF Len(lists) = 0 THEN FixedColumns
    ELSE CHOOSE w \in {Len(lists[k]) : k \in 1..Len(lists)} :
             \A k \in 1..Len(lists) : Len(lists[k]) <= w

\* the part of similar_rent_prices after the loop
Unpack(table, streets, rents) ==
    IF UnpackWidth(streets) # FixedColumns \/ UnpackWidth(rents) # FixedColumns
    THEN [status |-> "ValueError", columns |-> 0, rows |-> <<>>]
    ELSE [status |-> "ok",
          columns |-> FixedColumns,
          rows |-> [k \in 1..Len(table) |->
                     [street |-> table[k].street,
                      rent_per_square_meter |-> table[k].rent_per_square_meter,
                      rent_without_expenses |-> table[k].rent_without_expenses,
                      most_similar |-> streets[k],
                      most_similar_rent |-> rents[k]]]]

similar_rent_prices(table, n, tiebreak) ==
    LET similar_streets == [k \in 1..Len(table) |-> SimilarRows(table, k, n, tiebreak)]
    IN  Unpack(table,
               [k \in 1..Len(table) |-> StreetNames(similar_streets[k])],
               [k \in 1..Len(table) |-> StreetRents(similar_streets[k])])

----------------------------------------------------------------------------
(* Table helpers shared by the two aggregators.                            *)

\* the elements of a set of integers, in ascending order
SortedSeq(S) ==
    [k \in 1..Cardinality(S) |->
        CHOOSE x \in S : Cardinality({y \in S : y < x}) = k - 1]

RECURSIVE Flatten(_)
Flatten(seqs) ==
    IF Len(seqs) = 0 THEN <<>> ELSE Head(seqs) \o Flatten(Tail(seqs))

RECURSIVE SumColumn(_, _, _)
\* the sum of `column` over the rows whose positions are in K
SumColumn(rows, K, column) ==
    IF K = {} THEN 0
    ELSE LET k == CHOOSE x \in K : TRUE
         IN  rows[k][column] + SumColumn(rows, K \ {k}, column)

\* .agg("mean") of `column` over the rows at positions K (K is not empty)
Mean(rows, K, column) ==
    Frac(SumColumn(rows, K, column), Cardinality(K))

\* .round(1): the value in tenths, halves going to the even neighbour
Round1(x) ==
    LET q == (10 * x.num) \div x.den
        r == (10 * x.num) % x.den
    IN  IF 2 * r < x.den THEN q
        ELSE IF 2 * r > x.den THEN q + 1
        ELSE IF q % 2 = 0 THEN q ELSE q + 1

\* .drop_duplicates(): the first occurrence of every row, in row order
DropDuplicates(rows) ==
    LET keep == {k \in 1..Len(rows) : \A j \in 1..(k - 1) : rows[j] # rows[k]}
        order == SortedSeq(keep)
    IN  [k \in 1..Len(order) |-> rows[order[k]]]

----------------------------------------------------------------------------
(* get_district_aggregates                                                 *)

TimeTag(year) == IF year = CurrentYear THEN "now" ELSE "then"

\* the tag is written over the "year" column
TimeColumnOverYear(data) ==
    [rows |-> [k \in 1..Len(data.rows) |->
                 [data.rows[k] EXCEPT !.year = IF @ = CurrentYear THEN 1 ELSE 0]],
     time |-> [k \in 1..Len(data.rows) |-> TimeTag(data.rows[k].year)]]

\* complete_data["time"] = complete_data["year"].apply(...), in place
AddTimeColumn(data) ==
    [rows |-> data.rows,
     time |-> [k \in 1..Len(data.rows) |-> TimeTag(data.rows[k].year)]]

\* the columns (rental_type, time) in the order pivot gives them: sorted
ComboOrder ==
    << <<"apartment", "now">>, <<"apartment", "then">>,
       <<"room", "now">>, <<"room", "then">> >>

\* the (rental_type, time) groups present in the table: the pivot's columns
PriceColumns(data) ==
    SelectSeq(ComboOrder, LAMBDA c :
        \E k \in 1..Len(data.rows) :
            data.rows[k].rental_type = c[1] /\ data.time[k] = c[2])

GroupRows(data, district, combo) ==
    {k \in 1..Len(data.rows) :
        /\ data.rows[k].district = district
        /\ data.rows[k].rental_type = combo[1]
        /\ data.time[k] = combo[2]}

\* one cell of the pivoted, rounded price table
PriceCell(data, district, combo, column) ==
    IF GroupRows(data, district, combo) = {} THEN NaN
    ELSE Round1(Mean(data.rows, GroupRows(data, district, combo), column))

\* groupby / agg / pivot / rename / drop / round: one row per district, sorted by
\* district; the 8 value columns are named by position and columns 3 to 6
\* are dropped. (Called only when there are exactly 4 price columns.)
DistrictPrices(data) ==
    LET districts == SortedSeq({data.rows[k].district : k \in 1..Len(data.rows)})
        cols == PriceColumns(data)
    IN  [k \in 1..Len(districts) |->
          [district |-> districts[k],
           apartment_rent_sqm_now |->
               PriceCell(data, districts[k], cols[1], "rent_per_square_meter"),
           apartment_rent_sqm_then |->
               PriceCell(data, districts[k], cols[2], "rent_per_square_meter"),
           room_rent_now |->
               PriceCell(data, districts[k], cols[3], "rent_without_expenses"),
           room_rent_then |->
               PriceCell(data, districts[k], cols[4], "rent_without_expenses")]]

\* complete_data[complete_data["year"] == 2023].groupby(["district", "rooms"]):
\* the rows of the current year; groupby leaves out rows without a rooms value
CountedRows(data) ==
    {k \in 1..Len(data.rows) :
        /\ data.rows[k].year = CurrentYear
        /\ data.rows[k].rooms # NoRooms}

\* the rooms column holds the strings of the input file; they sort by their
\* characters, and "+" (43) sorts before the digits (49..52)
RoomsSortKey(rooms) ==
    CASE rooms = "+4" -> 43
      [] rooms = "1" -> 49
      [] rooms = "2" -> 50
      [] rooms = "3" -> 51
      [] rooms = "4" -> 52

\* the rooms values present among the counted rows, as pivot orders its columns
RoomsColumns(data) ==
    LET present == {data.rows[k].rooms : k \in CountedRows(data)}
        keys == SortedSeq({RoomsSortKey(b) : b \in present})
    IN  [k \in 1..Len(keys) |-> CHOOSE b \in present : RoomsSortKey(b) = keys[k]]

\* one cell of the pivoted count table after fillna(0)
RoomsCell(data, district, rooms) ==
    Cardinality({k \in CountedRows(data) :
        data.rows[k].district = district /\ data.rows[k].rooms = rooms})

\* count / pivot / rename / fillna: one row per district that has a counted row,
\* the 5 count columns named by position. (Called only with 5 rooms columns.)
ApartmentRoomsCount(data) ==
    LET districts == SortedSeq({data.rows[k].district : k \in CountedRows(data)})
        cols == RoomsColumns(data)
    IN  [k \in 1..Len(districts) |->
          [district |-> districts[k],
           apartments_w_1_room |-> RoomsCell(data, districts[k], cols[1]),
           apartments_w_2_rooms |-> RoomsCell(data, districts[k], cols[2]),
           apartments_w_3_rooms |-> RoomsCell(data, districts[k], cols[3]),
           apartments_w_4_rooms |-> RoomsCell(data, districts[k], cols[4]),
           apartments_w_plus4_rooms |-> RoomsCell(data, districts[k], cols[5])]]

NoCounts ==
    [apartments_w_1_room |-> NaN, apartments_w_2_rooms |-> NaN,
     apartments_w_3_rooms |-> NaN, apartments_w_4_rooms |-> NaN,
     apartments_w_plus4_rooms |-> NaN]

\* how="left": a row without a match is kept, its new columns empty
MergeCountsLeft(left, right) ==
    Flatten([k \in 1..Len(left) |->
        LET match == SelectSeq(right, LAMBDA r : r.district = left[k].district)
        IN  IF Len(match) = 0 THEN <<left[k] @@ NoCounts>>
            ELSE [j \in 1..Len(match) |-> left[k] @@ match[j]]])

\* district_data.merge(apartment_rooms_count, on="district"): the default,
\* how="inner"; rows in the order of the left table
MergeCounts(left, right) ==
    Flatten([k \in 1..Len(left) |->
        LET match == SelectSeq(right, LAMBDA r : r.district = left[k].district)
        IN  [j \in 1..Len(match) |-> left[k] @@ match[j]]])

\* complete_data[["district", "geometry"]].drop_duplicates()
DistrictGeometry(data) ==
    DropDuplicates([k \in 1..Len(data.rows) |->
        [district |-> data.rows[k].district, geometry |-> data.rows[k].geometry]])

\* district_data.merge(<district geometry>, on="district")
MergeDistrictGeometry(left, right) ==
    Flatten([k \in 1..Len(left) |->
        LET match == SelectSeq(right, LAMBDA r : r.district = left[k].district)
        IN  [j \in 1..Len(match) |-> left[k] @@ match[j]]])

\* the value get_district_aggregates returns (and writes), or the error it
\* raises: a rename with the wrong number of names is a ValueError
get_district_aggregates(table) ==
    LET data == AddTimeColumn(table)
    IN  IF Len(PriceColumns(data)) # 4 \/ Len(RoomsColumns(data)) # 5
        THEN [status |-> "ValueError", columns |-> 0, rows |-> <<>>]
        ELSE [status |-> "ok",
              columns |-> 11,
              rows |-> MergeDistrictGeometry(
                           MergeCounts(DistrictPrices(data), ApartmentRoomsCount(data)),
                           DistrictGeometry(data))]

\* the rows of other years are dropped from the caller's table as well
TableAfterDistrictFiltered(table) ==
    LET kept == SelectSeq(table.rows, LAMBDA r : r.year = CurrentYear)
    IN  [rows |-> kept, time |-> [k \in 1..Len(kept) |-> "now"]]

\* what get_district_aggregates leaves in the caller's table: the assignment
\* of the "time" column is its only statement that changes complete_data
TableAfterDistrict(table) ==
    AddTimeColumn(table)

----------------------------------------------------------------------------
(* get_street_aggregates                                                   *)

\* complete_data[year == 2023][rental_type == "apartment"]: a new table
CurrentApartments(table) ==
    SelectSeq(table.rows, LAMBDA r :
        r.year = CurrentYear /\ r.rental_type = "apartment")

StreetRows(rows, street) ==
    {k \in 1..Len(rows) : rows[k].street = street}

\* groupby(["street"]).agg(mean).reset_index(): one row per street, sorted
StreetMeans(rows) ==
    LET streets == SortedSeq({rows[k].street : k \in 1..Len(rows)})
    IN  [k \in 1..Len(streets) |->
          [street |-> streets[k],
           rent_per_square_meter |->
               Mean(rows, StreetRows(rows, streets[k]), "rent_per_square_meter"),
           rent_without_expenses |->
               Mean(rows, StreetRows(rows, streets[k]), "rent_without_expenses")]]

\* groupby(["street"])["id"].count(), merged on "street", renamed to "count"
MergeStreetCounts(left, rows) ==
    [k \in 1..Len(left) |->
        left[k] @@ [count |-> Cardinality(StreetRows(rows, left[k].street))]]

\* complete_data[["street", "geometry_street"]].drop_duplicates()
StreetGeometry(rows) ==
    DropDuplicates([k \in 1..Len(rows) |->
        [street |-> rows[k].street, geometry_street |-> rows[k].geometry_street]])

\* street_data.merge(<street geometry>, on="street")
MergeStreetGeometry(left, right) ==
    Flatten([k \in 1..Len(left) |->
        LET match == SelectSeq(right, LAMBDA r : r.street = left[k].street)
        IN  [j \in 1..Len(match) |-> left[k] @@ match[j]]])

\* the value get_street_aggregates returns (and writes), or the error raised
get_street_aggregates(table, n, tiebreak) ==
    LET rows == CurrentApartments(table)
        similar == similar_rent_prices(StreetMeans(rows), n, tiebreak)
    IN  IF similar.status # "ok" THEN similar
        ELSE [status |-> "ok",
              columns |-> similar.columns,
              rows |-> MergeStreetGeometry(MergeStreetCounts(similar.rows, rows),
                                           StreetGeometry(rows))]

----------------------------------------------------------------------------
(* similar_rent_prices, statement by statement, on street tables as        *)
(* groupby("street") produces them: one row per street, sorted by street.  *)

NotStarted == [status |-> "none", columns |-> 0, rows |-> <<>>]
Running == [status |-> "running", columns |-> 0, rows |-> <<>>]
NoTable == [rows |-> <<>>, time |-> <<>>]

StreetTables ==
    UNION {[1..s -> Prices] : s \in 0..MaxStreets}

StreetRow(k, price) ==
    [street |-> k,
     rent_per_square_meter |-> Frac(price, 1),
     rent_without_expenses |-> Frac(100 * price, 1)]

InitSimilar ==
    /\ \E prices \in StreetTables :
           street_data = [k \in DOMAIN prices |-> StreetRow(k, prices[k])]
    /\ n_similar_streets \in 0..MaxSimilar
    /\ sort_tiebreak \in TieBreaks
    /\ i = 1
    /\ most_similar_streets = <<>>
    /\ most_similar_rents = <<>>
    /\ similar_result = Running
    /\ input = <<>>
    /\ complete_data = NoTable
    /\ district_aggregates = NotStarted
    /\ street_aggregates = NotStarted
    /\ first_district_aggregates = NotStarted
    /\ first_street_aggregates = NotStarted
    /\ calls = <<>>

\* one pass of "for i in range(len(street_data))"
SimilarLoop ==
    /\ similar_result.status = "running"
    /\ i <= Len(street_data)
    /\ LET similar_streets ==
               SimilarRows(street_data, i, n_similar_streets, sort_tiebreak)
       IN  /\ most_similar_streets' =
                  Append(most_similar_streets, StreetNames(similar_streets))
           /\ most_similar_rents' =
                  Append(most_similar_rents, StreetRents(similar_streets))
    /\ i' = i + 1
    /\ UNCHANGED <<street_data, similar_result, n_similar_streets, sort_tiebreak>>
    /\ UNCHANGED pipeline_vars

\* the statements after the loop, up to the return
SimilarUnpack ==
    /\ similar_result.status = "running"
    /\ i > Len(street_data)
    /\ similar_result' = Unpack(street_data, most_similar_streets, most_similar_rents)
    /\ UNCHANGED <<street_data, i, most_similar_streets, most_similar_rents,
                   n_similar_streets, sort_tiebreak>>
    /\ UNCHANGED pipeline_vars

NextSimilar ==
    \/ SimilarLoop
    \/ SimilarUnpack

SpecSimilar == InitSimilar /\ [][NextSimilar]_vars

----------------------------------------------------------------------------
(* main(): one table is loaded, then the aggregators are called on it.     *)
(* The model lets them be called in either order and more than once.       *)

Listing(id, district, street, rental_type, year, rooms, sqm, rent, geo, geo_street) ==
    [id |-> id, district |-> district, street |-> street,
     rental_type |-> rental_type, year |-> year, rooms |-> rooms,
     rent_per_square_meter |-> sqm, rent_without_expenses |-> rent,
     geometry |-> geo, geometry_street |-> geo_street]

\* A table both aggregators accept: 6 streets with current apartments, all 5
\* rooms values and all 4 (rental_type, time) groups present; district 3 has
\* listings of an earlier year only.
BaseTable ==
    << Listing(1, 1, 1, "apartment", 2023, "1", 10, 4000, 101, 201),
       Listing(2, 1, 2, "apartment", 2023, "2", 12, 6000, 101, 202),
       Listing(3, 1, 3, "apartment", 2023, "3", 30, 9000, 101, 203),
       Listing(4, 2, 4, "apartment", 2023, "4", 11, 8000, 102, 204),
       Listing(5, 2, 5, "apartment", 2023, "+4", 12, 9500, 102, 205),
       Listing(6, 2, 6, "apartment", 2023, "1", 14, 5000, 102, 206),
       Listing(7, 1, 1, "room", 2023, "1", 20, 3000, 101, 201),
       Listing(8, 1, 2, "apartment", 2016, "2", 8, 5000, 101, 202),
       Listing(9, 2, 4, "room", 2016, "1", 15, 2500, 102, 204),
       Listing(10, 3, 5, "apartment", 2016, "2", 9, 5500, 103, 205) >>

\* One more listing: in district 1 or 3, on street 1 or on a new street 7, with
\* the usual geometry of its district and street or with another one.
ExtraListings ==
    {Listing(11, d, s, t, y, r, 13, 4500,
             IF usual_g THEN 100 + d ELSE 199, IF usual_gs THEN 200 + s ELSE 299) :
        d \in {1, 3}, s \in {1, 7}, t \in {"apartment", "room"},
        y \in {2016, 2023}, r \in {"+4", NoRooms},
        usual_g \in BOOLEAN, usual_gs \in BOOLEAN}

\* the base table without row `drop` (0: complete)
WithoutRow(rows, drop) ==
    SelectSeq(rows, LAMBDA r : r.id # drop)

InputTables ==
    {WithoutRow(BaseTable, drop) \o extra :
        drop \in 0..Len(BaseTable),
        extra \in {<<>>} \cup {<<e>> : e \in ExtraListings}}

\* pd.read_csv: the table as loaded has no "time" column
Loaded(rows) == [rows |-> rows, time |-> <<>>]

Init ==
    /\ input \in InputTables
    /\ complete_data = Loaded(input)
    /\ n_similar_streets = FixedColumns    \* main(): n_similar_streets=5
    /\ sort_tiebreak \in TieBreaks
    /\ district_aggregates = NotStarted
    /\ street_aggregates = NotStarted
    /\ first_district_aggregates = NotStarted
    /\ first_street_aggregates = NotStarted
    /\ calls = <<>>
    /\ street_data = <<>>
    /\ i = 0
    /\ most_similar_streets = <<>>
    /\ most_similar_rents = <<>>
    /\ similar_result = NotStarted

district_runs == Len(SelectSeq(calls, LAMBDA c : c = "district"))
street_runs == Len(SelectSeq(calls, LAMBDA c : c = "street"))

\* district_data = get_district_aggregates(complete_data, data_path)
RunDistrict ==
    /\ Len(calls) < MaxRuns
    /\ calls' = Append(calls, "district")
    /\ district_aggregates' = get_district_aggregates(complete_data)
    /\ complete_data' = TableAfterDistrict(complete_data)
    /\ first_district_aggregates' =
           IF district_runs = 0 THEN district_aggregates'
           ELSE first_district_aggregates
    /\ UNCHANGED <<input, n_similar_streets, sort_tiebreak, street_aggregates,
                   first_street_aggregates>>
    /\ UNCHANGED similar_vars

\* street_data = get_street_aggregates(complete_data, data_path, n_similar_streets)
RunStreet ==
    /\ Len(calls) < MaxRuns
    /\ calls' = Append(calls, "street")
    /\ street_aggregates' =
           get_street_aggregates(complete_data, n_similar_streets, sort_tiebreak)
    /\ first_street_aggregates' =
           IF street_runs = 0 THEN street_aggregates'
           ELSE first_street_aggregates
    /\ UNCHANGED <<input, complete_data, n_similar_streets, sort_tiebreak,
                   district_aggregates, first_district_aggregates>>
    /\ UNCHANGED similar_vars

Next ==
    \/ RunDistrict
    \/ RunStreet

Spec == Init /\ [][Next]_vars

----------------------------------------------------------------------------
(* Properties of the two aggregators, stated on the loaded input.          *)

InputRows == 1..Len(input)

DistrictOk == district_runs >= 1 /\ district_aggregates.status = "ok"
StreetOk == street_runs >= 1 /\ street_aggregates.status = "ok"

DistrictRowsOut == 1..Len(district_aggregates.rows)
StreetRowsOut == 1..Len(street_aggregates.rows)

RoomColumnsSum(row) ==
    row.apartments_w_1_room + row.apartments_w_2_rooms + row.apartments_w_3_rooms
        + row.apartments_w_4_rooms + row.apartments_w_plus4_rooms

\* the listings of district D and the current year with rooms value b
ListingsWithRooms(D, b) ==
    {k \in InputRows : /\ input[k].district = D
                       /\ input[k].year = 2023
                       /\ input[k].rooms = b}

\* C1, as claimed: for every district D of the district output, the five
\* room-count columns of D's row sum to the number of listings with
\* district D, year 2023 and rental_type "apartment" (rooms are not counted).
C1_RoomColumnsSumToApartments ==
    DistrictOk =>
        \A r \in DistrictRowsOut :
            RoomColumnsSum(district_aggregates.rows[r])
              = Cardinality({k \in InputRows :
                    /\ input[k].district = district_aggregates.rows[r].district
                    /\ input[k].year = 2023
                    /\ input[k].rental_type = "apartment"})

\* C9, as claimed: every room-count column holds the count of its own bucket:
\* apartments_w_1_room the listings with rooms "1", ..., apartments_w_+4_rooms
\* those with rooms "+4" (0 when there is none).
C9_ColumnsHoldOwnBucket ==
    DistrictOk =>
        \A r \in DistrictRowsOut :
            LET row == district_aggregates.rows[r]
                n(b) == Cardinality(ListingsWithRooms(row.district, b))
            IN  /\ row.apartments_w_1_room = n("1")
                /\ row.apartments_w_2_rooms = n("2")
                /\ row.apartments_w_3_rooms = n("3")
                /\ row.apartments_w_4_rooms = n("4")
                /\ row.apartments_w_plus4_rooms = n("+4")

CurrentApartmentStreets ==
    {input[k].street : k \in {j \in InputRows :
        input[j].year = 2023 /\ input[j].rental_type = "apartment"}}

\* C10, as claimed: the street output has exactly one row for each street
\* with a year-2023 apartment listing, and the district output has at most
\* one row per district, whatever geometry strings the listings carry.
C10_OneRowPerUnit ==
    /\ StreetOk =>
          /\ \A s \in CurrentApartmentStreets :
                 Cardinality({r \in StreetRowsOut :
                     street_aggregates.rows[r].street = s}) = 1
          /\ \A r \in StreetRowsOut :
                 street_aggregates.rows[r].street \in CurrentApartmentStreets
    /\ DistrictOk =>
          \A r1, r2 \in DistrictRowsOut :
              district_aggregates.rows[r1].district
                  = district_aggregates.rows[r2].district => r1 = r2

PriceDistricts == {input[k].district : k \in InputRows}

CountDistricts ==
    {input[k].district : k \in {j \in InputRows :
        input[j].year = 2023 /\ input[j].rooms # NoRooms}}

\* C8: the district merge is an inner join: a district is in the district
\* output iff it is in the price table (any listing) and in the room-count
\* table (a year-2023 listing with a rooms value); a district in only one of
\* them is dropped, without an error and without a partly filled row.
C8_DistrictMergeIsInnerJoin ==
    DistrictOk =>
        /\ {district_aggregates.rows[r].district : r \in DistrictRowsOut}
             = PriceDistricts \cap CountDistricts
        /\ \A r \in DistrictRowsOut :
               LET row == district_aggregates.rows[r]
               IN  /\ row.apartments_w_1_room >= 0
                   /\ row.apartments_w_2_rooms >= 0
                   /\ row.apartments_w_3_rooms >= 0
                   /\ row.apartments_w_4_rooms >= 0
                   /\ row.apartments_w_plus4_rooms >= 0

\* a successful run that dropped a district of the price table
C8_Witness ==
    /\ DistrictOk
    /\ PriceDistricts \ CountDistricts # {}
    /\ district_aggregates.rows # <<>>

\* C6: neither aggregator depends on the other having run: whatever calls
\* went before on the shared table, each returns what it returns on the
\* table as loaded, so the two orders give the same two outputs.
C6_NoOrderingDependency ==
    /\ district_runs >= 1 =>
           district_aggregates = get_district_aggregates(Loaded(input))
    /\ street_runs >= 1 =>
           street_aggregates
             = get_street_aggregates(Loaded(input), n_similar_streets, sort_tiebreak)

\* the street aggregator ran, successfully, on the table the district
\* aggregator had already given its "time" column
C6_Witness ==
    /\ calls = <<"district", "street">>
    /\ complete_data.time # <<>>
    /\ DistrictOk /\ district_aggregates.rows # <<>>
    /\ StreetOk /\ street_aggregates.rows # <<>>

\* C7: a second run on the same table object (as the first run left it)
\* returns what the first run returned, for both aggregators.
C7_RerunGivesSameOutput ==
    /\ district_runs >= 2 => district_aggregates = first_district_aggregates
    /\ street_runs >= 2 => street_aggregates = first_street_aggregates

\* the district aggregator has run twice with a non-empty result, and the
\* street aggregator in between
C7_Witness ==
    /\ calls = <<"district", "street", "district">>
    /\ DistrictOk /\ district_aggregates.rows # <<>>
    /\ StreetOk /\ street_aggregates.rows # <<>>

----------------------------------------------------------------------------
(* Properties of similar_rent_prices, stated on the street table itself.   *)

RowOfStreet(street) ==
    CHOOSE r \in 1..Len(street_data) : street_data[r].street = street

\* |mean price of `street` - mean price of the street of row k|, as a fraction
PriceGap(k, street) ==
    LET a == street_data[RowOfStreet(street)].rent_per_square_meter
        b == street_data[k].rent_per_square_meter
        d == a.num * b.den - b.num * a.den
    IN  Frac(IF d < 0 THEN -d ELSE d, a.den * b.den)

OthersOf(k) ==
    {street_data[r].street : r \in 1..Len(street_data)} \ {street_data[k].street}

ListedFor(k) ==
    {most_similar_streets[k][j] : j \in 1..Len(most_similar_streets[k])}

LoopDone == i > Len(street_data)

\* C2: the similarity list computed for a street T never contains T, holds no
\* street twice, and has exactly min(N, S-1) entries (S = number of streets).
C2_ListExcludesTargetAndHasMinLength ==
    \A k \in 1..Len(most_similar_streets) :
        LET list == most_similar_streets[k]
        IN  /\ \A j \in 1..Len(list) : list[j] # street_data[k].street
            /\ \A j1, j2 \in 1..Len(list) : j1 # j2 => list[j1] # list[j2]
            /\ Len(list)
                 = (IF n_similar_streets < Len(street_data) - 1
                    THEN n_similar_streets ELSE Len(street_data) - 1)

\* a finished loop over 4 streets where N both truncates (N = 2 < S-1)
C2_Witness ==
    /\ LoopDone
    /\ Len(street_data) = 4
    /\ n_similar_streets = 2
    /\ Len(most_similar_streets) = 4
    /\ Len(most_similar_streets[3]) = 2

\* C3: the streets listed for T are in non-decreasing order of price gap to T,
\* no street left out is strictly closer than a listed one, the reported
\* prices are those of the listed streets, and for prices [10, 12, 30, 11]
\* with N = 2 the street priced 10 gets the streets priced 11 then 12.
C3_ListOrderedByPriceGap ==
    /\ \A k \in 1..Len(most_similar_streets) :
        LET list == most_similar_streets[k]
        IN  /\ \A j \in 1..(Len(list) - 1) :
                   ~FracLess(PriceGap(k, list[j + 1]), PriceGap(k, list[j]))
            /\ \A o \in OthersOf(k) \ ListedFor(k) : \A l \in ListedFor(k) :
                   ~FracLess(PriceGap(k, o), PriceGap(k, l))
            /\ Len(most_similar_rents[k]) = Len(list)
            /\ \A j \in 1..Len(list) :
                   most_similar_rents[k][j]
                     = street_data[RowOfStreet(list[j])].rent_per_square_meter
    /\ ( /\ Len(street_data) = 4
         /\ \A r \in 1..4 :
                street_data[r].rent_per_square_meter = Frac(<<10, 12, 30, 11>>[r], 1)
         /\ n_similar_streets = 2
         /\ Len(most_similar_streets) >= 1 )
       => /\ most_similar_streets[1] = <<4, 2>>
          /\ most_similar_rents[1] = <<Frac(11, 1), Frac(12, 1)>>

\* the example table of the claim, after the loop
C3_Witness ==
    /\ LoopDone
    /\ Len(street_data) = 4
    /\ \A r \in 1..4 :
           street_data[r].rent_per_square_meter = Frac(<<10, 12, 30, 11>>[r], 1)
    /\ n_similar_streets = 2
    /\ most_similar_streets[1] = <<4, 2>>

\* C4, as claimed: streets with the same price gap to T are ranked, and chosen
\* for the first N, in their row order in the street table.
C4_TiesInRowOrder ==
    \A k \in 1..Len(most_similar_streets) :
        LET list == most_similar_streets[k]
        IN  /\ \A j1, j2 \in 1..Len(list) :
                   (j1 < j2 /\ FracEq(PriceGap(k, list[j1]), PriceGap(k, list[j2])))
                       => RowOfStreet(list[j1]) < RowOfStreet(list[j2])
            /\ \A o \in OthersOf(k) \ ListedFor(k) : \A l \in ListedFor(k) :
                   FracEq(PriceGap(k, o), PriceGap(k, l))
                       => RowOfStreet(l) < RowOfStreet(o)

\* C4, amended: among streets with the same price gap to T the order is the
\* sort's choice; what is fixed is how many of them are listed: of the streets
\* at one gap, as many as fit in the N places left by the strictly closer ones.
C4_TiedStreetsFillRemainingPlaces ==
    \A k \in 1..Len(most_similar_streets) :
        \A o \in OthersOf(k) :
            LET closer == Cardinality({s \in OthersOf(k) :
                              FracLess(PriceGap(k, s), PriceGap(k, o))})
                tied == Cardinality({s \in OthersOf(k) :
                              FracEq(PriceGap(k, s), PriceGap(k, o))})
                listed == Cardinality({s \in ListedFor(k) :
                              FracEq(PriceGap(k, s), PriceGap(k, o))})
                places == IF n_similar_streets > closer
                          THEN n_similar_streets - closer ELSE 0
            IN  listed = (IF tied < places THEN tied ELSE places)

\* two tied streets listed against their row order, and a tie cut by N
C4_Witness ==
    /\ LoopDone
    /\ \E k \in 1..Len(most_similar_streets) :
           LET list == most_similar_streets[k]
           IN  /\ \E j \in 1..(Len(list) - 1) :
                      /\ FracEq(PriceGap(k, list[j]), PriceGap(k, list[j + 1]))
                      /\ RowOfStreet(list[j]) > RowOfStreet(list[j + 1])
               /\ \E o \in OthersOf(k) \ ListedFor(k) : \E l \in ListedFor(k) :
                      FracEq(PriceGap(k, o), PriceGap(k, l))

\* C5, as claimed: for every N and every street table similar_rent_prices
\* completes, with exactly N similar-street name columns and N price columns
\* (entries beyond the available streets empty).
C5_NColumnsForEveryN ==
    similar_result.status # "running"
        => /\ similar_result.status = "ok"
           /\ similar_result.columns = n_similar_streets

====
